---- MODULE Spec2Model ----
(***************************************************************************)
(* Model of the learning-content core of chinese-pro:                      *)
(*   - services/geminiService.ts : fetchHskVocabulary,                      *)
(*     fetchWritingPromptPool, fetchHskExam (pooled content cache)          *)
(*   - components/WritingPractice (src/unnamed/part_000)                   *)
(*   - components/Flashcards      (src/unnamed/part_001)                   *)
(*   - components/HskExam         (src/unnamed/part_002)                   *)
(*   - components/Conversations   (src/unnamed/part_001)                   *)
(*                                                                         *)
(* Every component is a React function component: its useState cells are   *)
(* the variables, every event handler / promise continuation / timer       *)
(* callback is one action.  A handler runs to completion on the single     *)
(* event loop; the state updates of one handler are committed together.    *)
(* The passive effect of a commit (useEffect) is a step of its own that    *)
(* runs before the next event is handled.                                  *)
(*                                                                         *)
(* JavaScript arrays are 0-based; sequences here are 1-based, so a JS      *)
(* index i addresses element i+1.                                          *)
(***************************************************************************)
EXTENDS Integers, Sequences, FiniteSets, TLC

VARIABLES
    \* ---- HskExam (part_002:28-35) ----
    level, questions, currentQuestionIndex, userAnswers, score,
    examState, isLoading, timeLeft,
    timerId,          \* the intervals armed by the timer effect (part_002:70)
    mounted,          \* the host shows the component
    effectPending,    \* the timer effect of the last commit has not run yet
    pendingStart,     \* the fetchHskExam call startExam is awaiting (<<>>: none)
    history,          \* what addHistoryItem has recorded
    alerts,           \* whether startExam has shown its alert() dialog
    examsStarted,     \* successful starts so far
    reanswered        \* history: the last handleAnswer replaced another choice

examVars == <<level, questions, currentQuestionIndex, userAnswers, score,
              examState, isLoading, timeLeft, timerId, effectPending,
              pendingStart, history, alerts, examsStarted, reanswered,
              mounted>>

VARIABLES
    \* ---- Flashcards (part_001:5-8) ----
    dueCards, currentCardIndex, isFlipped,
    flashcards,       \* localStorage 'flashcards', parsed
    now,              \* the clock read by new Date()
    lastReview,       \* history: the last updateCard call (<<>>: none)
    justLoaded        \* history: the last step was loadDueCards

cardVars == <<dueCards, currentCardIndex, isFlipped, flashcards, now,
              lastReview, justLoaded>>

VARIABLES
    \* ---- sessionStorage and the calls of geminiService.ts ----
    vocabStore,       \* key hsk-vocab-pool-<level>: <<>> absent, <<pool>> stored
    wpStore,          \* key writing-prompt-pool-hsk-<level>, likewise
    storageBlocked,   \* sessionStorage access throws (reads and writes alike)
    convStore,        \* key hsk-conversation-<level>, likewise
    dictStore,        \* key dictionary-entry-<word>, likewise
    svcInFlight,      \* service calls awaiting the provider
    svcReturn,        \* history: how the last service call settled (<<>>: none)
    providerCalls     \* provider calls issued so far

cacheVars == <<vocabStore, wpStore, convStore, dictStore, storageBlocked,
               svcInFlight, svcReturn, providerCalls>>

\* The keys of fetchConversation and fetchDictionaryEntry
lookupStores == <<convStore, dictStore>>

VARIABLES
    \* ---- WritingPractice (part_000) ----
    writingLevel,        \* useState level
    prompt,              \* useState prompt: <<>> is null, <<item>> otherwise
    promptPool,          \* useState promptPool
    currentPoolIndex,    \* useState currentPoolIndex (0-based)
    writingIsLoading,    \* useState isLoading
    error,               \* useState error ("" is none)
    customKeyword,       \* useState customKeyword
    pendingLoads,        \* provider requests of the component not yet settled
    levelEffectPending,  \* the effect on [level] has yet to run
    presented,           \* history: per level, the pool items presented
                         \* since the last provider call for that level
    presentedTwice       \* history: per level, one of them was presented again

writingVars == <<writingLevel, prompt, promptPool, currentPoolIndex,
                 writingIsLoading, error, customKeyword, pendingLoads,
                 levelEffectPending, presented, presentedTwice>>

VARIABLES
    \* ---- Conversations (part_001) ----
    convLevel,           \* useState level
    conversation,        \* useState conversation
    convIsLoading,       \* useState isLoading
    customTopic,         \* useState customTopic
    convPending,         \* fetchConversation calls not yet settled
    convEffectPending,   \* the effect on [level] has yet to run
    convAlerts,          \* number of alert() dialogs shown
    convHistory          \* the contents handed to addHistoryItem

convVars == <<convLevel, conversation, convIsLoading, customTopic,
              convPending, convEffectPending, convAlerts, convHistory>>

vars == <<examVars, cardVars, cacheVars, writingVars, convVars>>

othersThanExam == <<cardVars, cacheVars, writingVars, convVars>>
othersThanCards == <<examVars, cacheVars, writingVars, convVars>>
othersThanCache == <<examVars, cardVars, writingVars, convVars>>
othersThanWriting == <<examVars, cardVars, vocabStore, lookupStores,
                       storageBlocked, svcInFlight, svcReturn, convVars>>
othersThanConv == <<examVars, cardVars, writingVars, vocabStore, wpStore,
                    dictStore, storageBlocked, svcInFlight, svcReturn>>

----------------------------------------------------------------------------
(* Bounds of the model *)

\* fetchHskExam's totalQuestions and HskExam's TOTAL_QUESTIONS are 40 and
\* EXAM_DURATION_SECONDS is 50 * 60; they are scaled down here.
totalQuestions == 2
EXAM_DURATION_SECONDS == 2
MaxExams == 2
\* Flashcards: instants of the clock per day, days the clock may reach,
\* cards in the stored collection, and the largest interval written
TicksPerDay == 2
MaxDay == 2
MaxCards == 2
MaxInterval == 20
\* The pool cache: POOL_SIZE is 100 in fetchHskVocabulary and 25 in
\* fetchWritingPromptPool; both are scaled down.  Pages and page sizes a
\* caller asks for, and provider calls per run.
VOCAB_POOL_SIZE == 3
WRITING_POOL_SIZE == 2
MaxPage == 3
MaxLimit == 2
MaxProviderCalls == 2
\* Requests WritingPractice may have pending at once
MaxPending == 2

\* types.ts:4 has six levels; two of them are modelled
HSKLevels == {1, 2}

\* JavaScript's null in an answer slot
NULL == "null"

Min(a, b) == IF a < b THEN a ELSE b
Max(a, b) == IF a > b THEN a ELSE b

----------------------------------------------------------------------------
(* HskExam *)

\* What the provider may return for an exam: questions are not validated by
\* fetchHskExam, so a question may carry a correct_answer that is none of its
\* options.
QuestionBank ==
    { [options |-> <<"A", "B">>, correct_answer |-> "B"],
      [options |-> <<"A", "B">>, correct_answer |-> "C"] }

SeqsUpTo(S, n) == UNION { [1..k -> S] : k \in 0..n }

ExamResponses == SeqsUpTo(QuestionBank, totalQuestions + 1)

\* geminiService.ts:617-623
fetchHskExam(result) ==
    IF Len(result) > totalQuestions
    THEN SubSeq(result, 1, totalQuestions)
    ELSE result

\* part_002:38-43: the forEach over questions; userAnswers[index] of a slot
\* that does not exist is undefined, which equals no correct_answer.
RECURSIVE CountCorrect(_, _, _)
CountCorrect(qs, answers, n) ==
    IF n = 0 THEN 0
    ELSE CountCorrect(qs, answers, n - 1)
         + (IF n <= Len(answers) /\ answers[n] = qs[n].correct_answer
            THEN 1 ELSE 0)

\* counts the answered questions instead of the right ones
finalScore_answered(qs, answers) ==
    Cardinality({ i \in 1..Len(qs) : i <= Len(answers) /\ answers[i] # NULL })

\* the comparison inverted: counts the slots that differ
finalScore_inverted(qs, answers) ==
    Cardinality({ i \in 1..Len(qs) :
                    ~(i <= Len(answers) /\ answers[i] = qs[i].correct_answer) })

finalScore(qs, answers) == CountCorrect(qs, answers, Len(qs))

\* part_002:48-54
examResult(lv, qs, answers) ==
    [level |-> lv, score |-> finalScore(qs, answers),
     totalQuestions |-> Len(qs), questions |-> qs, userAnswers |-> answers]

\* historyService.addHistoryItem is not part of the sources: it is taken to
\* append one item holding the content it is given.
addHistoryItem(h, content) == Append(h, content)

\* part_002:37-60.  finishExam itself tests nothing: it always scores, moves
\* to 'finished' and records.
finishExam ==
    /\ score' = finalScore(questions, userAnswers)
    /\ examState' = "finished"
    /\ history' = addHistoryItem(history, examResult(level, questions, userAnswers))

\* an answers list one slot short
unanswered_short(n) == [i \in 1..(n - 1) |-> NULL]

\* part_002:82: Array(examQuestions.length).fill(null)
unanswered(n) == [i \in 1..n |-> NULL]

ExamInit ==
    /\ level = 1
    /\ questions = <<>>
    /\ currentQuestionIndex = 0
    /\ userAnswers = <<>>
    /\ score = 0
    /\ examState = "setup"
    /\ isLoading = FALSE
    /\ timeLeft = EXAM_DURATION_SECONDS
    /\ timerId = 0
    /\ mounted = TRUE
    /\ effectPending = TRUE
    /\ pendingStart = <<>>
    /\ history = <<>>
    /\ alerts = FALSE
    /\ examsStarted = 0
    /\ reanswered = FALSE

\* part_002:62-75: the effect with dependencies [examState, timeLeft,
\* finishExam].  Its previous cleanup clears the interval, then the body runs;
\* timerId counts the intervals that are armed.
\* the effect without its state test
TimerEffectGuard_dropped == FALSE

TimerEffectGuard == examState # "playing"

\* a cleanup that leaves the interval running
clearInterval_kept(id) == id

\* part_002:74: the cleanup of the previous run of the effect
clearInterval(id) == 0

\* an effect that finishes only once the countdown is below zero
TimerEffect_late ==
    /\ UNCHANGED <<othersThanExam, mounted>>
    /\ mounted
    /\ effectPending
    /\ IF TimerEffectGuard
       THEN /\ timerId' = clearInterval(timerId)
            /\ effectPending' = FALSE
            /\ UNCHANGED <<score, examState, history>>
       ELSE IF timeLeft < 0
       THEN /\ finishExam
            /\ timerId' = clearInterval(timerId)
            /\ effectPending' = TRUE
       ELSE /\ timerId' = clearInterval(timerId) + 1
            /\ effectPending' = FALSE
            /\ UNCHANGED <<score, examState, history>>
    /\ UNCHANGED <<level, questions, currentQuestionIndex, userAnswers,
                   isLoading, timeLeft, pendingStart, alerts, examsStarted,
                   reanswered>>

\* part_002:62-75: the effect, its body after the cleanup of its last run
TimerEffect ==
    /\ UNCHANGED <<othersThanExam, mounted>>
    /\ mounted
    /\ effectPending
    /\ IF TimerEffectGuard
       THEN /\ timerId' = clearInterval(timerId)
            /\ effectPending' = FALSE
            /\ UNCHANGED <<score, examState, history>>
       ELSE IF timeLeft <= 0
       THEN /\ finishExam
            /\ timerId' = clearInterval(timerId)
            /\ effectPending' = TRUE
       ELSE /\ timerId' = clearInterval(timerId) + 1
            /\ effectPending' = FALSE
            /\ UNCHANGED <<score, examState, history>>
    /\ UNCHANGED <<level, questions, currentQuestionIndex, userAnswers,
                   isLoading, timeLeft, pendingStart, alerts, examsStarted,
                   reanswered>>

\* a callback that takes two seconds off
Tick_double ==
    /\ UNCHANGED <<othersThanExam, mounted>>
    /\ mounted
    /\ ~effectPending
    /\ timerId > 0
    /\ timeLeft' = timeLeft - 2
    /\ effectPending' = TRUE
    /\ UNCHANGED <<level, questions, currentQuestionIndex, userAnswers, score,
                   examState, isLoading, timerId, pendingStart, history,
                   alerts, examsStarted, reanswered>>

\* part_002:70-72: the interval callback
Tick ==
    /\ UNCHANGED <<othersThanExam, mounted>>
    /\ mounted
    /\ ~effectPending
    /\ timerId > 0
    /\ timeLeft' = timeLeft - 1
    /\ effectPending' = TRUE
    /\ UNCHANGED <<level, questions, currentQuestionIndex, userAnswers, score,
                   examState, isLoading, timerId, pendingStart, history,
                   alerts, examsStarted, reanswered>>

\* part_002:152-156: the level buttons of the setup view
SetLevel(l) ==
    /\ UNCHANGED <<othersThanExam, mounted>>
    /\ mounted
    /\ ~effectPending
    /\ examState = "setup"
    /\ l # level
    /\ level' = l
    /\ effectPending' = TRUE
    /\ UNCHANGED <<questions, currentQuestionIndex, userAnswers, score,
                   examState, isLoading, timeLeft, timerId, pendingStart,
                   history, alerts, examsStarted, reanswered>>

\* part_002:77-80: startExam up to its await (button of the setup view,
\* disabled while isLoading)
StartExam ==
    /\ UNCHANGED <<othersThanExam, mounted>>
    /\ mounted
    /\ ~effectPending
    /\ examState = "setup"
    /\ ~isLoading
    /\ examsStarted < MaxExams
    /\ isLoading' = TRUE
    /\ pendingStart' = <<[level |-> level]>>
    /\ UNCHANGED <<level, questions, currentQuestionIndex, userAnswers, score,
                   examState, timeLeft, timerId, effectPending, history,
                   alerts, examsStarted, reanswered>>

\* A start that leaves the countdown where the previous exam left it
StartExamResolved_staleTime(result) ==
    /\ UNCHANGED <<othersThanExam, mounted>>
    /\ mounted
    /\ ~effectPending
    /\ pendingStart # <<>>
    /\ LET examQuestions == fetchHskExam(result) IN
        /\ questions' = examQuestions
        /\ userAnswers' = unanswered(Len(examQuestions))
    /\ currentQuestionIndex' = 0
    /\ score' = 0
    /\ examState' = "playing"
    /\ isLoading' = FALSE
    /\ pendingStart' = <<>>
    /\ effectPending' = TRUE
    /\ examsStarted' = examsStarted + 1
    /\ reanswered' = FALSE
    /\ UNCHANGED <<level, timeLeft, timerId, history, alerts>>

\* A start that leaves the cursor where the previous exam left it
StartExamResolved_keepCursor(result) ==
    /\ UNCHANGED <<othersThanExam, mounted>>
    /\ mounted
    /\ ~effectPending
    /\ pendingStart # <<>>
    /\ LET examQuestions == fetchHskExam(result) IN
        /\ questions' = examQuestions
        /\ userAnswers' = unanswered(Len(examQuestions))
    /\ score' = 0
    /\ timeLeft' = EXAM_DURATION_SECONDS
    /\ examState' = "playing"
    /\ isLoading' = FALSE
    /\ pendingStart' = <<>>
    /\ effectPending' = TRUE
    /\ examsStarted' = examsStarted + 1
    /\ reanswered' = FALSE
    /\ UNCHANGED <<level, currentQuestionIndex, timerId, history, alerts>>

\* part_002:81-86, 91-93: the provider answered
StartExamResolved(result) ==
    /\ UNCHANGED <<othersThanExam, mounted>>
    /\ mounted
    /\ ~effectPending
    /\ pendingStart # <<>>
    /\ LET examQuestions == fetchHskExam(result) IN
        /\ questions' = examQuestions
        /\ userAnswers' = unanswered(Len(examQuestions))
    /\ currentQuestionIndex' = 0
    /\ score' = 0
    /\ timeLeft' = EXAM_DURATION_SECONDS
    /\ examState' = "playing"
    /\ isLoading' = FALSE
    /\ pendingStart' = <<>>
    /\ effectPending' = TRUE
    /\ examsStarted' = examsStarted + 1
    /\ reanswered' = FALSE
    /\ UNCHANGED <<level, timerId, history, alerts>>

\* a failed start that also empties the session
StartExamFailed_clearing ==
    /\ UNCHANGED <<othersThanExam, mounted>>
    /\ mounted
    /\ ~effectPending
    /\ pendingStart # <<>>
    /\ alerts' = TRUE
    /\ examState' = "setup"
    /\ isLoading' = FALSE
    /\ pendingStart' = <<>>
    /\ questions' = <<>>
    /\ userAnswers' = <<>>
    /\ score' = 0
    /\ UNCHANGED <<level, currentQuestionIndex, timeLeft, timerId, effectPending,
                   history, examsStarted, reanswered>>

\* part_002:87-93 with geminiService.ts:624-627: the provider call failed
StartExamFailed ==
    /\ UNCHANGED <<othersThanExam, mounted>>
    /\ mounted
    /\ ~effectPending
    /\ pendingStart # <<>>
    /\ alerts' = TRUE
    /\ examState' = "setup"
    /\ isLoading' = FALSE
    /\ pendingStart' = <<>>
    /\ UNCHANGED <<level, questions, currentQuestionIndex, userAnswers, score,
                   timeLeft, timerId, effectPending, history, examsStarted,
                   reanswered>>

\* part_002:166: the playing view is rendered
PlayingView == examState = "playing" /\ Len(questions) > 0

\* newAnswers[i] = v on a copy of a JS array (part_002:109-110): a write past
\* the end extends the array, the hole reading as undefined.
\* pushes the answer instead of writing it at i
ArraySet_push(arr, i, v) == Append(arr, v)

ArraySet(arr, i, v) ==
    [k \in 1..Max(Len(arr), i + 1) |->
        IF k = i + 1 THEN v
        ELSE IF k <= Len(arr) THEN arr[k] ELSE "undefined"]

\* part_002:108-112, called from the option buttons (part_002:191-194)
handleAnswer(answer) ==
    /\ UNCHANGED <<othersThanExam, mounted>>
    /\ mounted
    /\ ~effectPending
    /\ PlayingView
    /\ userAnswers' = ArraySet(userAnswers, currentQuestionIndex, answer)
    /\ effectPending' = TRUE
    /\ reanswered' = (userAnswers[currentQuestionIndex + 1] \notin {NULL, answer})
    /\ UNCHANGED <<level, questions, currentQuestionIndex, score, examState,
                   isLoading, timeLeft, timerId, pendingStart, history,
                   alerts, examsStarted>>

AnswerClick ==
    /\ PlayingView
    /\ \E k \in 1..Len(questions[currentQuestionIndex + 1].options) :
          handleAnswer(questions[currentQuestionIndex + 1].options[k])

\* A cursor that 'next' and 'prev' move whatever its position
navigated_unclamped(direction, index) ==
    IF direction = "next" THEN currentQuestionIndex + 1
    ELSE IF direction = "prev" THEN currentQuestionIndex - 1
    ELSE IF direction = "jump" /\ index # <<>> THEN index[1]
    ELSE currentQuestionIndex

\* part_002:115-121: the cursor handleNavigation sets; index is <<>> when
\* the argument is left out
navigated(direction, index) ==
    IF direction = "next" /\ currentQuestionIndex < Len(questions) - 1
    THEN currentQuestionIndex + 1
    ELSE IF direction = "prev" /\ currentQuestionIndex > 0
    THEN currentQuestionIndex - 1
    ELSE IF direction = "jump" /\ index # <<>>
    THEN index[1]
    ELSE currentQuestionIndex

\* part_002:114-122; index is <<>> when the optional argument is not given
handleNavigation(direction, index) ==
    /\ UNCHANGED <<othersThanExam, mounted>>
    /\ mounted
    /\ ~effectPending
    /\ PlayingView
    /\ currentQuestionIndex' = navigated(direction, index)
    /\ UNCHANGED <<level, questions, userAnswers, score, examState, isLoading,
                   timeLeft, timerId, effectPending, pendingStart, history,
                   alerts, examsStarted, reanswered>>

\* part_002:208-210 (prev / next buttons, disabled at the ends) and
\* part_002:218-229 (the palette, one button per question)
NavigationClick ==
    \/ /\ currentQuestionIndex # Len(questions) - 1
       /\ handleNavigation("next", <<>>)
    \/ /\ currentQuestionIndex # 0
       /\ handleNavigation("prev", <<>>)
    \/ \E i \in 0..(Len(questions) - 1) :
          /\ i # currentQuestionIndex
          /\ handleNavigation("jump", <<i>>)

\* part_002:124-133: window.confirm answered OK
handleSubmit ==
    /\ UNCHANGED <<othersThanExam, mounted>>
    /\ mounted
    /\ ~effectPending
    /\ PlayingView
    /\ finishExam
    /\ effectPending' = TRUE
    /\ UNCHANGED <<level, questions, currentQuestionIndex, userAnswers,
                   isLoading, timeLeft, timerId, pendingStart, alerts,
                   examsStarted, reanswered>>

\* a reset that restarts the finished exam
resetExam_replay ==
    /\ UNCHANGED <<othersThanExam, mounted>>
    /\ mounted
    /\ ~effectPending
    /\ examState = "finished"
    /\ examState' = "playing"
    /\ effectPending' = TRUE
    /\ UNCHANGED <<level, questions, currentQuestionIndex, userAnswers, score,
                   isLoading, timeLeft, timerId, pendingStart, history,
                   alerts, examsStarted, reanswered>>

\* part_002:141, the button of the finished view (part_002:247)
resetExam ==
    /\ UNCHANGED <<othersThanExam, mounted>>
    /\ mounted
    /\ ~effectPending
    /\ examState = "finished"
    /\ examState' = "setup"
    /\ effectPending' = TRUE
    /\ UNCHANGED <<level, questions, currentQuestionIndex, userAnswers, score,
                   isLoading, timeLeft, timerId, pendingStart, history,
                   alerts, examsStarted, reanswered>>

\* The host tears the component down: React runs the cleanup of the last run
\* of the effect (part_002:74) and drops the state; a start that is still
\* awaited settles into nothing
Unmount_leaking ==
    /\ UNCHANGED othersThanExam
    /\ mounted
    /\ mounted' = FALSE
    /\ effectPending' = FALSE
    /\ UNCHANGED <<level, questions, currentQuestionIndex, userAnswers, score,
                   examState, isLoading, timeLeft, timerId, pendingStart,
                   history, alerts, examsStarted, reanswered>>

Unmount ==
    /\ UNCHANGED othersThanExam
    /\ mounted
    /\ mounted' = FALSE
    /\ timerId' = clearInterval(timerId)
    /\ effectPending' = FALSE
    /\ UNCHANGED <<level, questions, currentQuestionIndex, userAnswers, score,
                   examState, isLoading, timeLeft, pendingStart, history,
                   alerts, examsStarted, reanswered>>

ExamNext ==
    \/ TimerEffect
    \/ Tick
    \/ \E l \in HSKLevels : SetLevel(l)
    \/ StartExam
    \/ \E r \in ExamResponses : StartExamResolved(r)
    \/ StartExamFailed
    \/ AnswerClick
    \/ NavigationClick
    \/ handleSubmit
    \/ resetExam

----------------------------------------------------------------------------
(* Flashcards *)

\* An instant is a number of clock ticks since the epoch; TicksPerDay ticks
\* make one local day.
\* Date.prototype.toISOString (part_001:46): the instant written out as a
\* calendar date and a time of day
toISOString(t) == [date |-> t \div TicksPerDay, time |-> t % TicksPerDay]

\* new Date(card.reviewDate) (part_001:14): the instant an ISO string denotes
DateParse(iso) == iso.date * TicksPerDay + iso.time

\* today.setHours(0, 0, 0, 0) (part_001:13)
setHoursZero(t) == (t \div TicksPerDay) * TicksPerDay

\* A date that is left where it is
setDatePlus_none(t, n) == t

\* d.setDate(d.getDate() + n) (part_001:44): n days later, same time of day
setDatePlus(t, n) == t + n * TicksPerDay

\* Math.round on the whole numbers the intervals are
MathRound(x) == x

Hanzi == {"ma", "shu"}
Difficulties == {"hard", "good", "easy"}
InitialIntervals == {1, 5}

CardOf(h, iv, t) == [hanzi |-> h, interval |-> iv, reviewDate |-> toISOString(t)]

\* The collections another view may have stored earlier on the first day:
\* cards with distinct hanzi, a positive interval and a review date written
\* with its time of day.
StoredCollections ==
    { cs \in SeqsUpTo({ CardOf(h, iv, t) : h \in Hanzi, iv \in InitialIntervals,
                                           t \in 0..(TicksPerDay - 1) },
                      MaxCards) :
        \A i, j \in 1..Len(cs) : i # j => cs[i].hanzi # cs[j].hanzi }

RECURSIVE Filter(_, _)
Filter(cs, today) ==
    IF cs = <<>> THEN <<>>
    ELSE (IF DateParse(Head(cs).reviewDate) <= today THEN <<Head(cs)>> ELSE <<>>)
         \o Filter(Tail(cs), today)

\* part_001:61
currentCard ==
    IF Len(dueCards) > 0 /\ currentCardIndex < Len(dueCards)
    THEN <<dueCards[currentCardIndex + 1]>> ELSE <<>>

CardsInit ==
    /\ dueCards = <<>>
    /\ currentCardIndex = 0
    /\ isFlipped = FALSE
    /\ flashcards \in StoredCollections
    /\ now = TicksPerDay - 1
    /\ lastReview = <<>>
    /\ justLoaded = FALSE

\* part_001:10-18, run on mount (part_001:20-22) and by the button shown
\* when there is no current card (part_001:106)
loadDueCards ==
    /\ UNCHANGED othersThanCards
    /\ currentCard = <<>>
    /\ dueCards' = Filter(flashcards, setHoursZero(now))
    /\ currentCardIndex' = 0
    /\ isFlipped' = FALSE
    /\ justLoaded' = TRUE
    /\ UNCHANGED <<flashcards, now, lastReview>>

\* part_001:24, the card is clickable when there is a current card
handleFlip ==
    /\ UNCHANGED othersThanCards
    /\ currentCard # <<>>
    /\ isFlipped' = ~isFlipped
    /\ justLoaded' = FALSE
    /\ UNCHANGED <<dueCards, currentCardIndex, flashcards, now, lastReview>>

\* A table whose 'hard' halves the interval
newInterval_halving(card, difficulty) ==
    CASE difficulty = "hard" -> card.interval \div 2
      [] difficulty = "good" -> card.interval * 2
      [] difficulty = "easy" -> card.interval * 4

\* 'hard' keeps the interval instead of resetting it
newInterval_keep(card, difficulty) ==
    CASE difficulty = "hard" -> card.interval
      [] difficulty = "good" -> card.interval * 2
      [] difficulty = "easy" -> card.interval * 4

\* part_001:30-41
newInterval(card, difficulty) ==
    CASE difficulty = "hard" -> 1
      [] difficulty = "good" -> card.interval * 2
      [] difficulty = "easy" -> card.interval * 4

\* A rescheduling that counts the days from the card's previous review date
updatedCard_fromPrevious(card, difficulty, t) ==
    [card EXCEPT !.interval = newInterval(card, difficulty),
                 !.reviewDate = toISOString(
                     setDatePlus(DateParse(card.reviewDate),
                                 MathRound(newInterval(card, difficulty))))]

\* part_001:43-46
updatedCard(card, difficulty, t) ==
    [card EXCEPT !.interval = newInterval(card, difficulty),
                 !.reviewDate = toISOString(
                     setDatePlus(t, MathRound(newInterval(card, difficulty))))]

\* a search that settles for the first stored card
findIndex_first(cs, h) == IF Len(cs) > 0 THEN 1 ELSE 0

\* allCards.findIndex(c => c.word.hanzi === card.word.hanzi) (part_001:50);
\* 0 stands for "not found"
findIndex(cs, h) ==
    IF \E i \in 1..Len(cs) : cs[i].hanzi = h
    THEN CHOOSE i \in 1..Len(cs) :
            /\ cs[i].hanzi = h
            /\ \A j \in 1..(i - 1) : cs[j].hanzi # h
    ELSE 0

\* part_001:26-59, the buttons shown when the current card is flipped
\* (part_001:94-99)
updateCard(difficulty) ==
    /\ UNCHANGED othersThanCards
    /\ currentCard # <<>>
    /\ isFlipped
    /\ currentCardIndex < Len(dueCards)
    /\ LET card == dueCards[currentCardIndex + 1]
           cardIndexInAll == findIndex(flashcards, card.hanzi)
       IN /\ newInterval(card, difficulty) <= MaxInterval
          /\ flashcards' =
               IF cardIndexInAll # 0
               THEN [flashcards EXCEPT
                       ![cardIndexInAll] = updatedCard(card, difficulty, now)]
               ELSE flashcards
          /\ lastReview' = <<[hanzi |-> card.hanzi, prior |-> card.interval,
                              difficulty |-> difficulty, at |-> now]>>
    /\ isFlipped' = FALSE
    /\ currentCardIndex' = currentCardIndex + 1
    /\ justLoaded' = FALSE
    /\ UNCHANGED <<dueCards, now>>

\* Time passes
ClockTick ==
    /\ UNCHANGED othersThanCards
    /\ now < MaxDay * TicksPerDay + TicksPerDay - 1
    /\ now' = now + 1
    /\ justLoaded' = FALSE
    /\ UNCHANGED <<dueCards, currentCardIndex, isFlipped, flashcards, lastReview>>

\* The 'flashcards' key is removed from localStorage behind the component
\* (site data cleared, another tab); the next read takes '[]' (part_001:49)
StorageCleared ==
    /\ UNCHANGED othersThanCards
    /\ flashcards # <<>>
    /\ flashcards' = <<>>
    /\ justLoaded' = FALSE
    /\ UNCHANGED <<dueCards, currentCardIndex, isFlipped, now, lastReview>>

CardsNext ==
    \/ loadDueCards
    \/ handleFlip
    \/ \E d \in Difficulties : updateCard(d)
    \/ ClockTick
    \/ StorageCleared

----------------------------------------------------------------------------
(* The pool cache of geminiService.ts *)

\* Array.prototype.slice(start, end) on a JS array: negative indices count
\* from the end, both are clamped to the array, an empty range gives [].
slice(arr, start, end) ==
    LET len  == Len(arr)
        from == IF start < 0 THEN Max(len + start, 0) ELSE Min(start, len)
        to   == IF end < 0 THEN Max(len + end, 0) ELSE Min(end, len)
    IN IF to <= from THEN <<>> ELSE SubSeq(arr, from + 1, to)

\* What the provider may answer to the vocabulary prompt of call number b:
\* any number of words, more or fewer than asked for
VocabWord(b, k) == [batch |-> b, k |-> k]
VocabResults(b) ==
    { [k \in 1..n |-> VocabWord(b, k)] : n \in 0..(VOCAB_POOL_SIZE + 1) }

\* What the provider may answer to the writing prompt: characters whose hanzi
\* may be longer than one character
WritingItem(l, b, k, n) == [level |-> l, batch |-> b, k |-> k, hanziLength |-> n]
WritingResults(l, b) ==
    UNION { { [k \in 1..n |-> WritingItem(l, b, k, f[k])] : f \in [1..n -> {1, 2}] }
            : n \in 0..(WRITING_POOL_SIZE + 1) }

\* The free-text topic of a conversation request ("" when none is given) and
\* the words looked up
Topics == {"", "food"}
Words == {"ma"}

\* What the provider may answer to a conversation prompt and to a lookup
ConversationResults(b) ==
    { <<>>, <<[batch |-> b, line |-> 1]>> }
DictionaryResults(b) == { [batch |-> b] }

Pages == 0..MaxPage
Limits == 1..MaxLimit

\* sessionStorage.getItem(key) inside try/catch (geminiService.ts:193-200,
\* 416-424): <<>> when the key is absent or the read throws
getItem(store, l) == IF storageBlocked THEN <<>> ELSE store[l]

\* sessionStorage.setItem(key, JSON.stringify(v)) inside try/catch
\* (geminiService.ts:241-245, 487-491): nothing is stored when it throws
setItem(store, l, v, writeOk) ==
    IF storageBlocked \/ ~writeOk THEN store ELSE [store EXCEPT ![l] = <<v>>]

\* A read that never finds the persisted pool
cachedWordPool_miss(l) == <<>>

\* geminiService.ts:190-200: the pool read from the cache, [] when there is none
cachedWordPool(l) ==
    IF getItem(vocabStore, l) # <<>> THEN getItem(vocabStore, l)[1] ELSE <<>>

\* Paging that counts pages from 0
pagedWords_zeroBased(wordPool, page, limit) ==
    slice(wordPool, page * limit, page * limit + limit)

\* geminiService.ts:252-257
pagedWords(wordPool, page, limit) ==
    LET start == (page - 1) * limit
        end   == start + limit
    IN slice(wordPool, start, end)

\* geminiService.ts:484
validatedResult(result) ==
    LET single(item) == item.hanziLength = 1 IN SelectSeq(result, single)

Settled(fn, l, page, limit, outcome, fromCache, pool, value) ==
    <<[fn |-> fn, level |-> l, page |-> page, limit |-> limit,
       outcome |-> outcome, fromCache |-> fromCache, pool |-> pool,
       value |-> value]>>

\* A write that throws ends the call with an error
persistOutcome_fatal(writeOk) ==
    IF writeOk /\ ~storageBlocked THEN "ok" ELSE "error"

\* geminiService.ts:240-245, 486-492: the write to the store sits in a
\* try/catch of its own, which logs a warning and lets the call go on
persistOutcome(writeOk) == "ok"

\* How a call that went to the provider returns: received is the number of
\* items the answer holds (after validation, where there is one), writable
\* tells whether sessionStorage takes a write
Fetched(fn, l, page, limit, pool, value, received, writeOk) ==
    <<[fn |-> fn, level |-> l, page |-> page, limit |-> limit,
       outcome |-> persistOutcome(writeOk), fromCache |-> FALSE,
       pool |-> pool, value |-> value, received |-> received,
       writable |-> (writeOk /\ ~storageBlocked)]>>

Remove(q, i) == SubSeq(q, 1, i - 1) \o SubSeq(q, i + 1, Len(q))

CacheInit ==
    /\ vocabStore = [l \in HSKLevels |-> <<>>]
    /\ wpStore = [l \in HSKLevels |-> <<>>]
    /\ convStore = [l \in HSKLevels |-> <<>>]
    /\ dictStore = [w \in Words |-> <<>>]
    /\ storageBlocked \in BOOLEAN
    /\ svcInFlight = <<>>
    /\ svcReturn = <<>>
    /\ providerCalls = 0

\* geminiService.ts:186-234 up to the await, or to the return at 252-257
\* when the pool is cached
fetchHskVocabulary(l, page, limit) ==
    /\ UNCHANGED <<othersThanCache, lookupStores>>
    /\ IF Len(cachedWordPool(l)) = 0
       THEN /\ providerCalls < MaxProviderCalls
            /\ providerCalls' = providerCalls + 1
            /\ svcInFlight' = Append(svcInFlight,
                  [fn |-> "vocab", level |-> l, page |-> page, limit |-> limit,
                   batch |-> providerCalls + 1])
            /\ UNCHANGED svcReturn
       ELSE /\ svcReturn' = Settled("vocab", l, page, limit, "ok", TRUE,
                                    cachedWordPool(l),
                                    pagedWords(cachedWordPool(l), page, limit))
            /\ UNCHANGED <<providerCalls, svcInFlight>>
    /\ UNCHANGED <<vocabStore, wpStore, storageBlocked>>

\* A fetch that persists the provider's answer whole
VocabResolved_uncapped(i, result, writeOk) ==
    /\ UNCHANGED <<othersThanCache, lookupStores>>
    /\ svcInFlight[i].fn = "vocab"
    /\ LET req == svcInFlight[i] IN
          /\ vocabStore' = setItem(vocabStore, req.level, result, writeOk)
          /\ svcReturn' = Fetched("vocab", req.level, req.page, req.limit,
                                  result,
                                  pagedWords(result, req.page, req.limit),
                                  Len(result), writeOk)
    /\ svcInFlight' = Remove(svcInFlight, i)
    /\ UNCHANGED <<wpStore, storageBlocked, providerCalls>>

\* geminiService.ts:236-245, 252-257: the provider answered call i
VocabResolved(i, result, writeOk) ==
    /\ UNCHANGED <<othersThanCache, lookupStores>>
    /\ svcInFlight[i].fn = "vocab"
    /\ LET req      == svcInFlight[i]
           wordPool == slice(result, 0, VOCAB_POOL_SIZE)
       IN /\ vocabStore' = setItem(vocabStore, req.level, wordPool, writeOk)
          /\ svcReturn' = Fetched("vocab", req.level, req.page, req.limit,
                                  wordPool,
                                  pagedWords(wordPool, req.page, req.limit),
                                  Len(result), writeOk)
    /\ svcInFlight' = Remove(svcInFlight, i)
    /\ UNCHANGED <<wpStore, storageBlocked, providerCalls>>

\* a failure that also drops the persisted vocabulary pools
ProviderFailed_wiping(i) ==
    /\ UNCHANGED <<othersThanCache, lookupStores>>
    /\ svcReturn' = Settled(svcInFlight[i].fn, svcInFlight[i].level,
                            svcInFlight[i].page, svcInFlight[i].limit,
                            "error", FALSE, <<>>, <<>>)
    /\ svcInFlight' = Remove(svcInFlight, i)
    /\ vocabStore' = [l \in HSKLevels |-> <<>>]
    /\ UNCHANGED <<wpStore, storageBlocked, providerCalls>>

\* geminiService.ts:246-249 / 495-498: the provider call i failed
ProviderFailed(i) ==
    /\ UNCHANGED <<othersThanCache, lookupStores>>
    /\ svcReturn' = Settled(svcInFlight[i].fn, svcInFlight[i].level,
                            svcInFlight[i].page, svcInFlight[i].limit,
                            "error", FALSE, <<>>, <<>>)
    /\ svcInFlight' = Remove(svcInFlight, i)
    /\ UNCHANGED <<vocabStore, wpStore, storageBlocked, providerCalls>>

\* geminiService.ts:412-478 up to the await, or to the return at 420 when
\* the pool is cached
fetchWritingPromptPool(l) ==
    /\ UNCHANGED <<othersThanCache, lookupStores>>
    /\ IF getItem(wpStore, l) # <<>>
       THEN /\ svcReturn' = Settled("writing", l, 0, 0, "ok", TRUE,
                                    getItem(wpStore, l)[1], getItem(wpStore, l)[1])
            /\ UNCHANGED <<providerCalls, svcInFlight>>
       ELSE /\ providerCalls < MaxProviderCalls
            /\ providerCalls' = providerCalls + 1
            /\ svcInFlight' = Append(svcInFlight,
                  [fn |-> "writing", level |-> l, page |-> 0, limit |-> 0,
                   batch |-> providerCalls + 1])
            /\ UNCHANGED svcReturn
    /\ UNCHANGED <<vocabStore, wpStore, storageBlocked>>

\* geminiService.ts:480-494: the provider answered call i
WritingResolved(i, result, writeOk) ==
    /\ UNCHANGED <<othersThanCache, lookupStores>>
    /\ svcInFlight[i].fn = "writing"
    /\ LET req == svcInFlight[i] IN
          /\ wpStore' = IF Len(validatedResult(result)) > 0
                        THEN setItem(wpStore, req.level, validatedResult(result),
                                     writeOk)
                        ELSE wpStore
          /\ svcReturn' = Fetched("writing", req.level, 0, 0,
                                  validatedResult(result), validatedResult(result),
                                  Len(validatedResult(result)), writeOk)
    /\ svcInFlight' = Remove(svcInFlight, i)
    /\ UNCHANGED <<vocabStore, storageBlocked, providerCalls>>

\* a test that takes every request for one without a topic
noTopic_always(topic) == TRUE

\* geminiService.ts:269, 317: !topic, true of undefined and of ""
noTopic(topic) == topic = ""

SettledConversation(l, topic, outcome, fromCache, value) ==
    <<[fn |-> "conversation", level |-> l, page |-> 0, limit |-> 0,
       outcome |-> outcome, fromCache |-> fromCache, pool |-> <<>>,
       value |-> value, topic |-> topic]>>

\* geminiService.ts:267-307 up to the await, or to the return at 275 when
\* the request has no topic and a conversation is cached
fetchConversation(l, topic) ==
    /\ UNCHANGED othersThanCache
    /\ IF noTopic(topic) /\ getItem(convStore, l) # <<>>
       THEN /\ svcReturn' = SettledConversation(l, topic, "ok", TRUE,
                                                getItem(convStore, l)[1])
            /\ UNCHANGED <<providerCalls, svcInFlight>>
       ELSE /\ providerCalls < MaxProviderCalls
            /\ providerCalls' = providerCalls + 1
            /\ svcInFlight' = Append(svcInFlight,
                  [fn |-> "conversation", level |-> l, page |-> 0, limit |-> 0,
                   batch |-> providerCalls + 1, topic |-> topic])
            /\ UNCHANGED svcReturn
    /\ UNCHANGED <<vocabStore, wpStore, lookupStores, storageBlocked>>

\* geminiService.ts:314-326: the provider answered call i
ConversationResolved(i, result, writeOk) ==
    /\ UNCHANGED othersThanCache
    /\ svcInFlight[i].fn = "conversation"
    /\ LET req == svcInFlight[i] IN
          /\ convStore' = IF noTopic(req.topic)
                          THEN setItem(convStore, req.level, result, writeOk)
                          ELSE convStore
          /\ svcReturn' = SettledConversation(req.level, req.topic, "ok", FALSE,
                                              result)
    /\ svcInFlight' = Remove(svcInFlight, i)
    /\ UNCHANGED <<vocabStore, wpStore, dictStore, storageBlocked, providerCalls>>

\* geminiService.ts:104-156 up to the await, or to the return at 110 when
\* the entry is cached
fetchDictionaryEntry(word) ==
    /\ UNCHANGED othersThanCache
    /\ IF getItem(dictStore, word) # <<>>
       THEN /\ svcReturn' = Settled("dictionary", 0, 0, 0, "ok", TRUE, <<>>,
                                    getItem(dictStore, word)[1])
            /\ UNCHANGED <<providerCalls, svcInFlight>>
       ELSE /\ providerCalls < MaxProviderCalls
            /\ providerCalls' = providerCalls + 1
            /\ svcInFlight' = Append(svcInFlight,
                  [fn |-> "dictionary", level |-> 0, page |-> 0, limit |-> 0,
                   batch |-> providerCalls + 1, word |-> word])
            /\ UNCHANGED svcReturn
    /\ UNCHANGED <<vocabStore, wpStore, lookupStores, storageBlocked>>

\* geminiService.ts:161-170: the provider answered call i
DictionaryResolved(i, result, writeOk) ==
    /\ UNCHANGED othersThanCache
    /\ svcInFlight[i].fn = "dictionary"
    /\ dictStore' = setItem(dictStore, svcInFlight[i].word, result, writeOk)
    /\ svcReturn' = Settled("dictionary", 0, 0, 0, "ok", FALSE, <<>>, result)
    /\ svcInFlight' = Remove(svcInFlight, i)
    /\ UNCHANGED <<vocabStore, wpStore, convStore, storageBlocked, providerCalls>>

\* sessionStorage.removeItem(cacheKey) (part_000:269-270)
removeItem(l) ==
    /\ UNCHANGED <<othersThanCache, lookupStores>>
    /\ ~storageBlocked
    /\ wpStore[l] # <<>>
    /\ wpStore' = [wpStore EXCEPT ![l] = <<>>]
    /\ UNCHANGED <<vocabStore, storageBlocked, svcInFlight, svcReturn,
                   providerCalls>>

\* The browsing session ends: sessionStorage is emptied and the page with
\* its pending calls is gone
SessionEnds ==
    /\ UNCHANGED othersThanCache
    /\ \/ \E l \in HSKLevels :
             vocabStore[l] # <<>> \/ wpStore[l] # <<>> \/ convStore[l] # <<>>
       \/ \E w \in Words : dictStore[w] # <<>>
    /\ vocabStore' = [l \in HSKLevels |-> <<>>]
    /\ wpStore' = [l \in HSKLevels |-> <<>>]
    /\ convStore' = [l \in HSKLevels |-> <<>>]
    /\ dictStore' = [w \in Words |-> <<>>]
    /\ svcInFlight' = <<>>
    /\ svcReturn' = <<>>
    /\ UNCHANGED <<storageBlocked, providerCalls>>

CacheNext ==
    \/ \E l \in HSKLevels, page \in Pages, limit \in Limits :
          fetchHskVocabulary(l, page, limit)
    \/ \E i \in 1..Len(svcInFlight), writeOk \in BOOLEAN :
          \E result \in VocabResults(svcInFlight[i].batch) :
             VocabResolved(i, result, writeOk)
    \/ \E i \in 1..Len(svcInFlight) : ProviderFailed(i)
    \/ \E l \in HSKLevels : fetchWritingPromptPool(l)
    \/ \E i \in 1..Len(svcInFlight), writeOk \in BOOLEAN :
          \E result \in WritingResults(svcInFlight[i].level, svcInFlight[i].batch) :
             WritingResolved(i, result, writeOk)
    \/ \E l \in HSKLevels, topic \in Topics : fetchConversation(l, topic)
    \/ \E i \in 1..Len(svcInFlight), writeOk \in BOOLEAN :
          \E result \in ConversationResults(svcInFlight[i].batch) :
             ConversationResolved(i, result, writeOk)
    \/ \E word \in Words : fetchDictionaryEntry(word)
    \/ \E i \in 1..Len(svcInFlight), writeOk \in BOOLEAN :
          \E result \in DictionaryResults(svcInFlight[i].batch) :
             DictionaryResolved(i, result, writeOk)
    \/ \E l \in HSKLevels : removeItem(l)
    \/ SessionEnds

----------------------------------------------------------------------------
(* WritingPractice *)

\* [...pool].sort(() => 0.5 - Math.random()) (part_000:108): some ordering of
\* the same items
Shuffles(pool) ==
    LET n == Len(pool)
        bijections == { f \in [1..n -> 1..n] : \A i, j \in 1..n : f[i] = f[j] => i = j }
    IN { [i \in 1..n |-> pool[f[i]]] : f \in bijections }

Keywords == {"", "ma"}
\* What fetchWritingPromptByKeyword resolves to: a character outside the pools
CustomPrompt == WritingItem(0, 0, 1, 1)

\* The learner is shown item it of a level's pool
Present(it) ==
    /\ presented' = [presented EXCEPT ![it.level] = @ \cup {it}]
    /\ presentedTwice' =
          [presentedTwice EXCEPT ![it.level] = @ \/ it \in presented[it.level]]

WritingInit ==
    /\ writingLevel = 1
    /\ prompt = <<>>
    /\ promptPool = <<>>
    /\ currentPoolIndex = 0
    /\ writingIsLoading = TRUE
    /\ error = ""
    /\ customKeyword = ""
    /\ pendingLoads = <<>>
    /\ levelEffectPending = TRUE
    /\ presented = [l \in HSKLevels |-> {}]
    /\ presentedTwice = [l \in HSKLevels |-> FALSE]

\* part_000:103-118: loadNewPool after the await, for the pool it was given;
\* promptNow and errorNow are the cells as the earlier part of the same step
\* left them
poolLoaded(pool, promptNow, errorNow) ==
    /\ IF Len(pool) = 0
       THEN /\ error' = "pool-empty"
            /\ promptPool' = <<>>
            /\ prompt' = promptNow
            /\ UNCHANGED <<currentPoolIndex, presented, presentedTwice>>
       ELSE \E shuffledPool \in Shuffles(pool) :
               /\ promptPool' = shuffledPool
               /\ currentPoolIndex' = 0
               /\ prompt' = <<shuffledPool[1]>>
               /\ error' = errorNow
               /\ Present(shuffledPool[1])
    /\ writingIsLoading' = FALSE

\* part_000:95-119 with fetchWritingPromptPool (geminiService.ts:412-478):
\* store is sessionStorage as the caller left it.  A cached pool comes back
\* within the same task; otherwise the request goes to the provider.
loadNewPool(newLevel, store) ==
    /\ wpStore' = store
    /\ IF getItem(store, newLevel) # <<>>
       THEN /\ poolLoaded(getItem(store, newLevel)[1], <<>>, "")
            /\ UNCHANGED <<providerCalls, pendingLoads>>
       ELSE /\ providerCalls < MaxProviderCalls
            /\ Len(pendingLoads) < MaxPending
            /\ providerCalls' = providerCalls + 1
            /\ pendingLoads' = Append(pendingLoads,
                  [kind |-> "pool", level |-> newLevel, batch |-> providerCalls + 1])
            /\ writingIsLoading' = TRUE
            /\ error' = ""
            /\ prompt' = <<>>
            /\ presented' = [presented EXCEPT ![newLevel] = {}]
            /\ presentedTwice' = [presentedTwice EXCEPT ![newLevel] = FALSE]
            /\ UNCHANGED <<promptPool, currentPoolIndex>>

\* part_000:121-123: the effect on [level], run on mount and after setLevel
LevelEffect ==
    /\ UNCHANGED othersThanWriting
    /\ levelEffectPending
    /\ levelEffectPending' = FALSE
    /\ loadNewPool(writingLevel, wpStore)
    /\ UNCHANGED <<writingLevel, customKeyword>>

\* geminiService.ts:480-494 then part_000:103-118: the provider answered the
\* pool request i
PoolResolved(i, result, writeOk) ==
    /\ UNCHANGED othersThanWriting
    /\ ~levelEffectPending
    /\ pendingLoads[i].kind = "pool"
    /\ wpStore' = IF Len(validatedResult(result)) > 0
                  THEN setItem(wpStore, pendingLoads[i].level,
                               validatedResult(result), writeOk)
                  ELSE wpStore
    /\ poolLoaded(validatedResult(result), prompt, error)
    /\ pendingLoads' = Remove(pendingLoads, i)
    /\ UNCHANGED <<writingLevel, customKeyword, levelEffectPending, providerCalls>>

\* geminiService.ts:495-498 then part_000:113-118: the pool request i failed
PoolFailed(i) ==
    /\ UNCHANGED othersThanWriting
    /\ ~levelEffectPending
    /\ pendingLoads[i].kind = "pool"
    /\ error' = "load-failed"
    /\ writingIsLoading' = FALSE
    /\ pendingLoads' = Remove(pendingLoads, i)
    /\ UNCHANGED <<writingLevel, prompt, promptPool, currentPoolIndex,
                   customKeyword, levelEffectPending, presented, presentedTwice,
                   wpStore, providerCalls>>

\* part_000:348-432: the "next" button is rendered with the prompt
PromptView == ~writingIsLoading /\ error = "" /\ prompt # <<>>

\* part_000:259-274.  sessionStorage.removeItem is not guarded: where storage
\* access throws, the handler ends there.
handleNextWord ==
    /\ UNCHANGED othersThanWriting
    /\ ~levelEffectPending
    /\ PromptView
    /\ IF currentPoolIndex < Len(promptPool) - 1
       THEN /\ currentPoolIndex' = currentPoolIndex + 1
            /\ prompt' = <<promptPool[currentPoolIndex + 2]>>
            /\ Present(promptPool[currentPoolIndex + 2])
            /\ UNCHANGED <<promptPool, writingIsLoading, error, pendingLoads,
                           wpStore, providerCalls>>
       ELSE IF storageBlocked
            THEN UNCHANGED <<prompt, promptPool, currentPoolIndex,
                             writingIsLoading, error, pendingLoads, presented,
                             presentedTwice, wpStore, providerCalls>>
            ELSE loadNewPool(writingLevel, [wpStore EXCEPT ![writingLevel] = <<>>])
    /\ UNCHANGED <<writingLevel, customKeyword, levelEffectPending>>

\* part_000:311-319: a level button, never disabled
LevelClick(l) ==
    /\ UNCHANGED othersThanWriting
    /\ ~levelEffectPending
    /\ writingLevel # l
    /\ writingLevel' = l
    /\ customKeyword' = ""
    /\ levelEffectPending' = TRUE
    /\ UNCHANGED <<prompt, promptPool, currentPoolIndex, writingIsLoading, error,
                   pendingLoads, presented, presentedTwice, wpStore, providerCalls>>

\* part_000:331: typing into the keyword field
KeywordChange(k) ==
    /\ UNCHANGED othersThanWriting
    /\ ~levelEffectPending
    /\ customKeyword # k
    /\ customKeyword' = k
    /\ UNCHANGED <<writingLevel, prompt, promptPool, currentPoolIndex,
                   writingIsLoading, error, pendingLoads, levelEffectPending,
                   presented, presentedTwice, wpStore, providerCalls>>

\* part_000:276-285 up to the await; Enter in the field (part_000:336) calls
\* it whether or not a load is under way
handleCustomPrompt ==
    /\ UNCHANGED othersThanWriting
    /\ ~levelEffectPending
    /\ customKeyword # ""
    /\ Len(pendingLoads) < MaxPending
    /\ writingIsLoading' = TRUE
    /\ error' = ""
    /\ prompt' = <<>>
    /\ pendingLoads' = Append(pendingLoads, [kind |-> "custom", level |-> 0, batch |-> 0])
    /\ UNCHANGED <<writingLevel, promptPool, currentPoolIndex, customKeyword,
                   levelEffectPending, presented, presentedTwice, wpStore,
                   providerCalls>>

\* part_000:286-289, 294-296: the keyword request i was answered
CustomResolved(i) ==
    /\ UNCHANGED othersThanWriting
    /\ ~levelEffectPending
    /\ pendingLoads[i].kind = "custom"
    /\ prompt' = <<CustomPrompt>>
    /\ promptPool' = <<>>
    /\ currentPoolIndex' = 0
    /\ writingIsLoading' = FALSE
    /\ pendingLoads' = Remove(pendingLoads, i)
    /\ UNCHANGED <<writingLevel, error, customKeyword, levelEffectPending,
                   presented, presentedTwice, wpStore, providerCalls>>

\* part_000:290-296: the keyword request i failed
CustomFailed(i) ==
    /\ UNCHANGED othersThanWriting
    /\ ~levelEffectPending
    /\ pendingLoads[i].kind = "custom"
    /\ error' = "custom-failed"
    /\ writingIsLoading' = FALSE
    /\ pendingLoads' = Remove(pendingLoads, i)
    /\ UNCHANGED <<writingLevel, prompt, promptPool, currentPoolIndex,
                   customKeyword, levelEffectPending, presented, presentedTwice,
                   wpStore, providerCalls>>

WritingNext ==
    \/ LevelEffect
    \/ \E i \in 1..Len(pendingLoads), writeOk \in BOOLEAN :
          \E result \in WritingResults(pendingLoads[i].level, pendingLoads[i].batch) :
             PoolResolved(i, result, writeOk)
    \/ \E i \in 1..Len(pendingLoads) : PoolFailed(i)
    \/ handleNextWord
    \/ \E l \in HSKLevels : LevelClick(l)
    \/ \E k \in Keywords : KeywordChange(k)
    \/ handleCustomPrompt
    \/ \E i \in 1..Len(pendingLoads) : CustomResolved(i)
    \/ \E i \in 1..Len(pendingLoads) : CustomFailed(i)

----------------------------------------------------------------------------
(* Conversations *)

\* What the learner can type into the topic field
CustomTopics == Topics \cup {" "}

\* String.prototype.trim on the topics above
trim(t) == IF t = " " THEN "" ELSE t

\* part_001:135-144
ConvInit ==
    /\ convLevel = 1
    /\ conversation = <<>>
    /\ convIsLoading = FALSE
    /\ customTopic = ""
    /\ convPending = <<>>
    /\ convEffectPending = TRUE
    /\ convAlerts = 0
    /\ convHistory = {}

\* part_001:150-153 and 235-238: the lines are shown and, when there are
\* any, recorded.  The history is kept as the set of contents recorded.
conversationLoaded(data) ==
    /\ conversation' = data
    /\ convHistory' = IF Len(data) > 0 THEN convHistory \cup {data}
                                       ELSE convHistory

\* part_001:146-158: the effect on [level] (mount and level change) runs
\* loadConversation.  A cached conversation is returned without a provider
\* call (geminiService.ts:269-280) and the continuation follows at once.
loadConversation ==
    /\ UNCHANGED othersThanConv
    /\ convEffectPending
    /\ convEffectPending' = FALSE
    /\ IF getItem(convStore, convLevel) # <<>>
       THEN /\ conversationLoaded(getItem(convStore, convLevel)[1])
            /\ convIsLoading' = FALSE
            /\ UNCHANGED <<convPending, providerCalls>>
       ELSE /\ providerCalls < MaxProviderCalls
            /\ Len(convPending) < MaxPending
            /\ providerCalls' = providerCalls + 1
            /\ convPending' = Append(convPending,
                  [level |-> convLevel, topic |-> "", custom |-> FALSE,
                   batch |-> providerCalls + 1])
            /\ convIsLoading' = TRUE
            /\ conversation' = <<>>
            /\ UNCHANGED convHistory
    /\ UNCHANGED <<convLevel, customTopic, convAlerts, convStore>>

\* part_001:285-298: a level button; it is never disabled and does not test
\* whether the level changes.  The effect runs only when it does.
ConvLevelClick(l) ==
    /\ UNCHANGED othersThanConv
    /\ ~convEffectPending
    /\ l # convLevel \/ customTopic # ""
    /\ convLevel' = l
    /\ customTopic' = ""
    /\ convEffectPending' = (l # convLevel)
    /\ UNCHANGED <<conversation, convIsLoading, convPending, convAlerts,
                   convHistory, convStore, providerCalls>>

\* part_001:303-309: typing into the topic field
TopicChange(t) ==
    /\ UNCHANGED othersThanConv
    /\ ~convEffectPending
    /\ t # customTopic
    /\ customTopic' = t
    /\ UNCHANGED <<convLevel, conversation, convIsLoading, convPending,
                   convEffectPending, convAlerts, convHistory, convStore,
                   providerCalls>>

\* part_001:228-234 up to the await.  The Enter key of the topic field calls
\* the handler whatever isLoading is (part_001:308); a request with a topic
\* never reads the store (geminiService.ts:269).
handleGenerateCustomConversation ==
    /\ UNCHANGED othersThanConv
    /\ ~convEffectPending
    /\ trim(customTopic) # ""
    /\ providerCalls < MaxProviderCalls
    /\ Len(convPending) < MaxPending
    /\ providerCalls' = providerCalls + 1
    /\ convPending' = Append(convPending,
          [level |-> convLevel, topic |-> customTopic, custom |-> TRUE,
           batch |-> providerCalls + 1])
    /\ convIsLoading' = TRUE
    /\ conversation' = <<>>
    /\ UNCHANGED <<convLevel, customTopic, convEffectPending, convAlerts,
                   convHistory, convStore>>

\* geminiService.ts:314-327 followed by part_001:150-155 or 235-244: the
\* provider answered request i
ConvResolved(i, result, writeOk) ==
    /\ UNCHANGED othersThanConv
    /\ ~convEffectPending
    /\ LET req == convPending[i] IN
          convStore' = IF noTopic(req.topic)
                       THEN setItem(convStore, req.level, result, writeOk)
                       ELSE convStore
    /\ conversationLoaded(result)
    /\ convIsLoading' = FALSE
    /\ convPending' = Remove(convPending, i)
    /\ UNCHANGED <<convLevel, customTopic, convEffectPending, convAlerts,
                   providerCalls>>

\* geminiService.ts:328-331 rethrows.  The custom request catches it, alerts
\* and clears the flag (part_001:239-244); loadConversation has no handler
\* around its await (part_001:149), so its remaining statements never run.
ConvFailed(i) ==
    /\ UNCHANGED othersThanConv
    /\ ~convEffectPending
    /\ convPending' = Remove(convPending, i)
    /\ IF convPending[i].custom
       THEN /\ convAlerts' = convAlerts + 1
            /\ convIsLoading' = FALSE
       ELSE UNCHANGED <<convAlerts, convIsLoading>>
    /\ UNCHANGED <<convLevel, conversation, customTopic, convEffectPending,
                   convHistory, convStore, providerCalls>>

ConvNext ==
    \/ loadConversation
    \/ \E l \in HSKLevels : ConvLevelClick(l)
    \/ \E t \in CustomTopics : TopicChange(t)
    \/ handleGenerateCustomConversation
    \/ \E i \in 1..Len(convPending) :
          \E writeOk \in BOOLEAN :
             \E result \in ConversationResults(convPending[i].batch) :
                ConvResolved(i, result, writeOk)
    \/ \E i \in 1..Len(convPending) : ConvFailed(i)

----------------------------------------------------------------------------
(* The specifications: one per component, the others held at rest *)

\* Flashcards before anything is stored
CardsAtRest ==
    /\ CardsInit
    /\ flashcards = <<>>

\* The cache with nothing stored and storage available
CacheAtRest ==
    /\ CacheInit
    /\ ~storageBlocked

InitExam == ExamInit /\ CardsAtRest /\ CacheAtRest /\ WritingInit
    /\ ConvInit
SpecExam == InitExam /\ [][ExamNext]_vars

\* The exam with the host free to tear it down at any moment
HostedExamNext == ExamNext \/ Unmount
SpecExamHost == InitExam /\ [][HostedExamNext]_vars

\* The interval callback runs once its second has passed without the effect
\* having been re-run (answering re-creates the interval), and React runs a
\* pending effect
SpecExamFair ==
    InitExam /\ [][ExamNext]_vars /\ WF_vars(TimerEffect) /\ SF_vars(Tick)

InitCards == CardsInit /\ ExamInit /\ CacheAtRest /\ WritingInit
    /\ ConvInit
SpecCards == InitCards /\ [][CardsNext]_vars

InitCache == CacheInit /\ ExamInit /\ CardsAtRest /\ WritingInit
    /\ ConvInit
SpecCache == InitCache /\ [][CacheNext]_vars

InitWriting == WritingInit /\ CacheInit /\ ExamInit /\ CardsAtRest
    /\ ConvInit
SpecWriting == InitWriting /\ [][WritingNext]_vars

InitConversation ==
    ConvInit /\ CacheInit /\ ExamInit /\ CardsAtRest /\ WritingInit
SpecConversation == InitConversation /\ [][ConvNext]_vars

----------------------------------------------------------------------------
(* Properties of the pool cache (checked under SpecCache) *)

\* A pool is persisted for level l under this key and still has items
Persisted(store, l) == store[l] # <<>> /\ Len(store[l][1]) > 0

\* The call a step has just sent to the provider
IssuedCall == svcInFlight'[Len(svcInFlight')]

\* C1: once a pool has been fetched and persisted for a level, a page read
\* (fetchHskVocabulary) or a pool read (fetchWritingPromptPool) for that level
\* makes no provider call as long as the persisted pool has items and its key
\* has not been removed: a step that issues a provider call for a level is
\* taken only when no pool with items is persisted under that level's key.
C1_NoProviderCallWhilePersisted ==
    [][providerCalls' > providerCalls =>
          /\ IssuedCall.fn = "vocab" => ~Persisted(vocabStore, IssuedCall.level)
          /\ IssuedCall.fn = "writing" => ~Persisted(wpStore, IssuedCall.level)]_vars

\* A page was served from the pool persisted by the one provider call made
C1_Witness ==
    /\ svcReturn # <<>>
    /\ svcReturn[1].fn = "vocab"
    /\ svcReturn[1].fromCache
    /\ Len(svcReturn[1].value) > 0
    /\ providerCalls = 1
    /\ Persisted(vocabStore, svcReturn[1].level)

\* The items of pool at the 0-based positions start..end-1 that exist, in order
Window(pool, start, end) ==
    LET idx == { p \in 0..(Len(pool) - 1) : start <= p /\ p < end }
    IN [i \in 1..Cardinality(idx) |-> pool[Max(start, 0) + i]]

\* C2: a page read returns exactly the items of the pool at the 0-based
\* positions (page-1)*limit up to (page-1)*limit+limit-1: fewer than limit
\* when the pool ends inside the page, none when the page starts at or after
\* the end of the pool; a read served from the pool never fails.
C2_PageIsSlice ==
    (svcReturn # <<>> /\ svcReturn[1].fn = "vocab"
        /\ (svcReturn[1].fromCache \/ svcReturn[1].outcome = "ok")) =>
       /\ svcReturn[1].outcome = "ok"
       /\ svcReturn[1].value =
             Window(svcReturn[1].pool,
                    (svcReturn[1].page - 1) * svcReturn[1].limit,
                    (svcReturn[1].page - 1) * svcReturn[1].limit
                       + svcReturn[1].limit)

\* The last page of a pool that ends inside it came back short
C2_Witness ==
    /\ svcReturn # <<>>
    /\ svcReturn[1].fn = "vocab"
    /\ svcReturn[1].outcome = "ok"
    /\ svcReturn[1].page >= 2
    /\ Len(svcReturn[1].value) > 0
    /\ Len(svcReturn[1].value) < svcReturn[1].limit

\* All the keys of the cache
stores == <<vocabStore, wpStore, convStore, dictStore>>

\* C16: a persisted pool is either absent or fully populated: the vocabulary
\* pool of a level holds exactly the requested number of words, the writing
\* pool exactly the requested number of characters, each of them validated;
\* an undersized pool is never stored.
C16_PoolAbsentOrFull ==
    \A l \in HSKLevels :
       /\ vocabStore[l] # <<>> => Len(vocabStore[l][1]) = VOCAB_POOL_SIZE
       /\ wpStore[l] # <<>> =>
             /\ Len(wpStore[l][1]) = WRITING_POOL_SIZE
             /\ validatedResult(wpStore[l][1]) = wpStore[l][1]

\* C17: when the provider call of a request fails, the request is settled
\* with one error, no further provider call is made for it and every
\* persisted key is as it was before.
C17_FailureLeavesStore ==
    [][(Len(svcInFlight') < Len(svcInFlight) /\ svcReturn' # <<>>
           /\ svcReturn'[1].outcome = "error") =>
          /\ providerCalls' = providerCalls
          /\ Len(svcInFlight') = Len(svcInFlight) - 1
          /\ stores' = stores]_vars

\* Of two page reads of one level the first persisted its pool and the
\* second then failed
C17_Witness ==
    /\ svcReturn # <<>>
    /\ svcReturn[1].outcome = "error"
    /\ svcReturn[1].fn = "vocab"
    /\ providerCalls = 2
    /\ svcInFlight = <<>>
    /\ Persisted(vocabStore, svcReturn[1].level)

\* C18: a conversation request with a non-empty topic bypasses persistence:
\* it is never answered from a stored conversation, it always goes to the
\* provider, and neither issuing nor settling it changes a stored key.
C18_TopicBypassesStore ==
    /\ []((svcReturn # <<>> /\ svcReturn[1].fn = "conversation"
             /\ svcReturn[1].outcome = "ok" /\ svcReturn[1].topic # "")
            => ~svcReturn[1].fromCache)
    /\ [][(providerCalls' > providerCalls /\ IssuedCall.fn = "conversation"
             /\ IssuedCall.topic # "") => stores' = stores]_vars
    /\ [][(Len(svcInFlight') < Len(svcInFlight) /\ svcReturn' # <<>>
             /\ svcReturn'[1].fn = "conversation"
             /\ svcReturn'[1].outcome = "ok"
             /\ svcReturn'[1].topic # "") => stores' = stores]_vars

\* A request with a topic was answered by the provider while a conversation
\* of another provider call was stored for its level, and that one stayed
C18_Witness ==
    /\ svcReturn # <<>>
    /\ svcReturn[1].fn = "conversation"
    /\ svcReturn[1].outcome = "ok"
    /\ svcReturn[1].topic # ""
    /\ ~svcReturn[1].fromCache
    /\ Len(svcReturn[1].value) > 0
    /\ convStore[svcReturn[1].level] # <<>>
    /\ convStore[svcReturn[1].level][1] # svcReturn[1].value

\* The step is the return of a pool fetch that went to the provider
PoolFetched ==
    /\ Len(svcInFlight') < Len(svcInFlight)
    /\ svcReturn' # <<>>
    /\ svcReturn'[1].fn \in {"vocab", "writing"}
    /\ svcReturn'[1].outcome = "ok"

\* C22 (as stated): after a successful fetch the persisted pool of the level
\* has as many items as the provider's answer had valid ones, whatever that
\* number is.
C22_PersistedLengthIsReceived ==
    [][(PoolFetched /\ svcReturn'[1].writable) =>
          LET r     == svcReturn'[1]
              store == IF r.fn = "vocab" THEN vocabStore' ELSE wpStore'
          IN /\ store[r.level] # <<>>
             /\ Len(store[r.level][1]) = r.received]_vars

\* C22 (amended): after a successful fetch whose write the store takes, the
\* persisted vocabulary pool holds the first VOCAB_POOL_SIZE items of the
\* answer, so its length is the smaller of the answer's length and the
\* target; the persisted writing pool holds every valid item when there is
\* one, and the key is left as it was when there is none.
C22_PersistedLength ==
    [][(PoolFetched /\ svcReturn'[1].writable) =>
          LET r == svcReturn'[1] IN
             /\ r.fn = "vocab" =>
                   /\ vocabStore'[r.level] # <<>>
                   /\ Len(vocabStore'[r.level][1])
                         = Min(r.received, VOCAB_POOL_SIZE)
             /\ (r.fn = "writing" /\ r.received > 0) =>
                   /\ wpStore'[r.level] # <<>>
                   /\ Len(wpStore'[r.level][1]) = r.received
             /\ (r.fn = "writing" /\ r.received = 0) =>
                   wpStore'[r.level] = wpStore[r.level]]_vars

\* A vocabulary answer longer than the target was cut to the target, and a
\* writing answer longer than its target was persisted whole
C22_Witness ==
    /\ svcReturn # <<>>
    /\ svcReturn[1].fn = "vocab"
    /\ svcReturn[1].outcome = "ok"
    /\ ~svcReturn[1].fromCache
    /\ svcReturn[1].writable
    /\ svcReturn[1].received > VOCAB_POOL_SIZE
    /\ Persisted(vocabStore, svcReturn[1].level)
    /\ Len(vocabStore[svcReturn[1].level][1]) = VOCAB_POOL_SIZE
    /\ \E l \in HSKLevels :
          Persisted(wpStore, l) /\ Len(wpStore[l][1]) > WRITING_POOL_SIZE

\* The step is the provider's answer to a pool fetch coming back
PoolAnswered ==
    /\ Len(svcInFlight') < Len(svcInFlight)
    /\ svcReturn' # <<>>
    /\ svcReturn'[1].fn \in {"vocab", "writing"}
    /\ "received" \in DOMAIN svcReturn'[1]

\* C29: a storage failure in the pool cache is not fatal.  Where reading
\* sessionStorage throws, no call is served from the store and every pool
\* request goes on to the provider; when the write of a fetched pool throws,
\* the call still returns the fetched items, with no error, and the store is
\* as it was.
C29_StorageFailureNonFatal ==
    /\ [](storageBlocked =>
            /\ svcReturn # <<>> => ~svcReturn[1].fromCache
            /\ providerCalls < MaxProviderCalls =>
                  \A l \in HSKLevels :
                     /\ ENABLED (/\ fetchWritingPromptPool(l)
                                 /\ providerCalls' = providerCalls + 1)
                     /\ \A page \in Pages, limit \in Limits :
                           ENABLED (/\ fetchHskVocabulary(l, page, limit)
                                    /\ providerCalls' = providerCalls + 1))
    /\ [][PoolAnswered =>
            LET r == svcReturn'[1] IN
               /\ r.outcome = "ok"
               /\ r.value = (IF r.fn = "vocab"
                             THEN pagedWords(r.pool, r.page, r.limit)
                             ELSE r.pool)
               /\ Len(r.pool) = (IF r.fn = "vocab"
                                 THEN Min(r.received, VOCAB_POOL_SIZE)
                                 ELSE r.received)
               /\ ~r.writable =>
                     /\ vocabStore' = vocabStore
                     /\ wpStore' = wpStore]_vars

\* With storage readable, the write of a fetched writing pool threw: the
\* items were returned and no pool is persisted
C29_Witness ==
    /\ ~storageBlocked
    /\ svcReturn # <<>>
    /\ svcReturn[1].fn = "writing"
    /\ ~svcReturn[1].fromCache
    /\ svcReturn[1].outcome = "ok"
    /\ ~svcReturn[1].writable
    /\ Len(svcReturn[1].value) > 0
    /\ wpStore[svcReturn[1].level] = <<>>

----------------------------------------------------------------------------
(* Properties of WritingPractice (checked under SpecWriting) *)

\* The items of a pool
Items(pool) == { pool[i] : i \in 1..Len(pool) }

\* The pool request a step has just sent to the provider
IssuedLoad == pendingLoads'[Len(pendingLoads')]

\* C3: handleNextWord cycles exactly once through the shuffled pool before a
\* refetch: between the load of a level's pool and the next provider call
\* for that level no item of the pool is presented twice, and the provider
\* is called again for a level only after every item of the pool persisted
\* for it has been presented.
C3_CycleOnce ==
    /\ [](\A l \in HSKLevels : ~presentedTwice[l])
    /\ [][providerCalls' > providerCalls =>
             (wpStore[IssuedLoad.level] # <<>> =>
                 Items(wpStore[IssuedLoad.level][1])
                    \subseteq presented[IssuedLoad.level])]_vars

\* C15: no two provider fetches for the same fingerprint (writing pool of one
\* level) are in flight at the same time: a load that is asked for while a
\* fetch for its level is outstanding starts no second one.
C15_NoDuplicateFetch ==
    \A i, j \in 1..Len(pendingLoads) :
       (i # j /\ pendingLoads[i].kind = "pool" /\ pendingLoads[j].kind = "pool")
          => pendingLoads[i].level # pendingLoads[j].level

\* The next button is shown with the cursor on the last item of the pool
\* (or with no pool, after a custom prompt)
AtPoolEnd ==
    /\ PromptView
    /\ ~levelEffectPending
    /\ ~(currentPoolIndex < Len(promptPool) - 1)

C34_PoolOfSelectedLevel ==
    (pendingLoads = <<>> /\ ~levelEffectPending /\ PromptView) =>
       /\ \A i \in 1..Len(promptPool) : promptPool[i].level = writingLevel
       /\ (prompt # <<>> /\ prompt[1] \in Items(promptPool)) =>
             prompt[1].level = writingLevel

\* C35: the persisted pool of a level is deleted only when it is exhausted:
\* in a step that removes it, every item of it has been presented since it
\* was fetched.
C35_DeletedOnlyWhenExhausted ==
    [][\A l \in HSKLevels :
          (Persisted(wpStore, l) /\ wpStore'[l] = <<>>) =>
             Items(wpStore[l][1]) \subseteq presented[l]]_vars

\* C30: the cursor into a pool never moves back while the pool lives: in a
\* step that leaves the persisted pool of a level as it is and at whose
\* start and end the component holds that pool, currentPoolIndex does not
\* decrease.
C30_CursorMonotonic ==
    [][(/\ promptPool # <<>>
        /\ Items(promptPool') = Items(promptPool)
        /\ Persisted(wpStore, promptPool[1].level)
        /\ Items(wpStore[promptPool[1].level][1]) = Items(promptPool)
        /\ wpStore'[promptPool[1].level] = wpStore[promptPool[1].level])
          => currentPoolIndex' >= currentPoolIndex]_vars

----------------------------------------------------------------------------
(* Properties of HskExam *)

\* The indices at which the stored answer equals the question's correct_answer
Matches(qs, answers) ==
    { i \in 1..Len(qs) : i <= Len(answers) /\ answers[i] = qs[i].correct_answer }

LastResult == history[Len(history)]

AllUnanswered == \A i \in 1..Len(userAnswers) : userAnswers[i] = NULL

\* C6: whenever the exam is Finished, whether by timeout or by confirmed
\* submission, score is the number of indices whose stored answer equals the
\* question's correct_answer, exactly one result summary has been recorded for
\* each exam started, and the latest summary carries that score, the
\* questions and the answers.
C6_FinishScores ==
    examState = "finished" =>
        /\ score = Cardinality(Matches(questions, userAnswers))
        /\ Len(history) = examsStarted
        /\ LastResult.score = score
        /\ LastResult.totalQuestions = Len(questions)
        /\ LastResult.questions = questions
        /\ LastResult.userAnswers = userAnswers

\* An exam finished by timeout with one right and one wrong or missing answer
C6_Witness ==
    /\ examState = "finished"
    /\ timeLeft = 0
    /\ Len(questions) = totalQuestions
    /\ score = 1

C8_AnswerOverwrites ==
    /\ [][(examState = "playing" /\ userAnswers' # userAnswers) =>
            /\ Len(userAnswers') = Len(questions)
            /\ \A i \in 1..Len(userAnswers) :
                 i # currentQuestionIndex + 1 => userAnswers'[i] = userAnswers[i]
            /\ \E k \in 1..Len(questions[currentQuestionIndex + 1].options) :
                 userAnswers'[currentQuestionIndex + 1]
                    = questions[currentQuestionIndex + 1].options[k]
         ]_vars
    /\ [](examState = "finished" =>
            /\ Len(userAnswers) = Len(questions)
            /\ score = Cardinality(Matches(questions, userAnswers)))

\* A question answered wrongly and then answered again correctly counts
C8_Witness ==
    /\ examState = "finished"
    /\ reanswered
    /\ score = Len(questions)
    /\ score = totalQuestions

\* C9: an exam that finished by timeout with no answer given has score 0 and
\* a recorded result whose answer slots are all null, one per question.
C9_TimeoutUnanswered ==
    (examState = "finished" /\ timeLeft <= 0 /\ AllUnanswered) =>
        /\ score = 0
        /\ LastResult.score = 0
        /\ Len(LastResult.userAnswers) = Len(questions)
        /\ \A i \in 1..Len(questions) : LastResult.userAnswers[i] = NULL

C9_Witness ==
    /\ examState = "finished"
    /\ timeLeft <= 0
    /\ AllUnanswered
    /\ Len(questions) = totalQuestions
    /\ \E i \in 1..Len(questions) : questions[i].correct_answer \in
          { questions[i].options[k] : k \in 1..Len(questions[i].options) }

\* C10: examState only ever changes setup -> playing, playing -> finished or
\* finished -> setup.
C10_LinearLifecycle ==
    [][examState' # examState =>
         <<examState, examState'>> \in
            { <<"setup", "playing">>, <<"playing", "finished">>,
              <<"finished", "setup">> }]_vars

\* A second exam has been played to the end after a reset
C10_Witness ==
    /\ examState = "finished"
    /\ examsStarted = 2
    /\ Len(history) = 2

\* C11: a start that succeeds enters Playing from Setup with one unanswered
\* (null) slot per fetched question, the cursor at the first question, score 0
\* and the countdown at the full fixed duration.
C11_StartInitialises ==
    [][(examState # "playing" /\ examState' = "playing") =>
          /\ examState = "setup"
          /\ Len(userAnswers') = Len(questions')
          /\ \A i \in 1..Len(userAnswers') : userAnswers'[i] = NULL
          /\ currentQuestionIndex' = 0
          /\ score' = 0
          /\ timeLeft' = EXAM_DURATION_SECONDS]_vars

\* A second exam has just started after a first one that scored and ran
\* down its countdown
C11_Witness ==
    /\ examState = "playing"
    /\ examsStarted = 2
    /\ effectPending
    /\ Len(questions) = totalQuestions
    /\ AllUnanswered
    /\ score = 0
    /\ timeLeft = EXAM_DURATION_SECONDS
    /\ Len(history) = 1
    /\ history[1].score > 0

\* C12: a start whose provider call fails leaves the exam in Setup with the
\* error surfaced and the loading flag cleared, and the questions, answers,
\* score and countdown as they were before the call; start can be called
\* again.
C12_FailedStartIsNoOp ==
    [][(pendingStart # <<>> /\ pendingStart' = <<>> /\ examState' # "playing") =>
          /\ examState = "setup"
          /\ examState' = "setup"
          /\ alerts'
          /\ ~isLoading'
          /\ UNCHANGED <<questions, userAnswers, score, timeLeft,
                         currentQuestionIndex, history>>]_vars

\* A start failed after an earlier exam had been finished and reset
C12_Witness ==
    /\ alerts
    /\ examState = "setup"
    /\ ~isLoading
    /\ pendingStart = <<>>
    /\ examsStarted = 1
    /\ Len(history) = 1
    /\ Len(questions) > 0

C14_CountdownOnlyWhilePlaying ==
    /\ []((timerId > 0 /\ ~effectPending) => examState = "playing")
    /\ [][(examState # "playing" /\ timeLeft' # timeLeft) =>
             (examState' = "playing" /\ timeLeft' = EXAM_DURATION_SECONDS)]_vars

\* An exam was submitted with time left and its interval has been cleared
C14_Witness ==
    /\ examState = "finished"
    /\ timeLeft > 0
    /\ timeLeft < EXAM_DURATION_SECONDS
    /\ ~effectPending
    /\ timerId = 0

\* C20: reset from Finished clears the session and returns to Setup: after it
\* the question list, the answers, the score, the cursor and the countdown
\* hold their initial values and no longer those of the finished exam.
C20_ResetClears ==
    [][(examState = "finished" /\ examState' = "setup") =>
          /\ questions' = <<>>
          /\ userAnswers' = <<>>
          /\ score' = 0
          /\ currentQuestionIndex' = 0
          /\ timeLeft' = EXAM_DURATION_SECONDS]_vars

\* C26: the countdown never leaks.  At most one interval is armed; none is
\* armed once the effect has run in a state that is not 'playing' (after a
\* finish, after the reset that follows it, during setup); none is armed
\* after the component has been torn down.
C26_TimerCancelled ==
    /\ timerId <= 1
    /\ (examState # "playing" /\ ~effectPending) => timerId = 0
    /\ ~mounted => timerId = 0

\* The component was torn down during a running exam whose countdown had
\* started
C26_Witness ==
    /\ ~mounted
    /\ examState = "playing"
    /\ timeLeft > 0
    /\ timeLeft < EXAM_DURATION_SECONDS
    /\ timerId = 0

\* C32: while the exam is playing or finished the answers list has one slot
\* per question, and in the playing view the cursor is an index of both
\* lists, so the slot handleAnswer writes exists.
C32_AnswersMatchQuestions ==
    /\ examState \in {"playing", "finished"} =>
          Len(userAnswers) = Len(questions)
    /\ PlayingView =>
          /\ 0 <= currentQuestionIndex
          /\ currentQuestionIndex < Len(questions)
          /\ (currentQuestionIndex + 1) \in DOMAIN userAnswers

\* A second exam, shorter than the first, is being played and its only
\* question has been answered
C32_Witness ==
    /\ PlayingView
    /\ examsStarted = 2
    /\ Len(history) = 1
    /\ history[1].totalQuestions = 2
    /\ Len(questions) = 1
    /\ userAnswers[1] # NULL

\* C33: the level an exam's result records is the level its questions were
\* requested for: the start that resolves shows the exam under the level of
\* its request, the level does not change while the exam is played, and the
\* item finishExam records carries it.
C33_ResultLevelIsRequestedLevel ==
    /\ [][(pendingStart # <<>> /\ examState' = "playing"
             /\ examState # "playing") => level' = pendingStart[1].level]_vars
    /\ [][examState = "playing" => level' = level]_vars
    /\ [][Len(history') > Len(history) =>
            history'[Len(history')].level = level]_vars

\* C27: a successful fetchHskExam returns a question set of the fixed size:
\* the exam a resolved start shows has exactly totalQuestions questions.
C27_FixedSize ==
    [][(pendingStart # <<>> /\ pendingStart' = <<>> /\ examState' = "playing")
          => Len(questions') = totalQuestions]_vars

\* C28: every question an exam session holds has a correct_answer that is
\* one of its options, so that some option of the question scores as correct.
C28_AnswerAmongOptions ==
    \A i \in 1..Len(questions) :
       \E k \in 1..Len(questions[i].options) :
          questions[i].options[k] = questions[i].correct_answer

\* The palette of the playing view: one index per question (part_002:218-229)
Palette == 0..(Len(questions) - 1)

----------------------------------------------------------------------------
(* Properties of Flashcards *)

StoredCard(h) == flashcards[findIndex(flashcards, h)]

\* C4: after a review the stored card's interval is given by the outcome
\* alone: hard -> 1, good -> prior interval x 2, easy -> prior interval x 4.
C4_IntervalTable ==
    (lastReview # <<>> /\ findIndex(flashcards, lastReview[1].hanzi) # 0) =>
        StoredCard(lastReview[1].hanzi).interval =
            (IF lastReview[1].difficulty = "hard" THEN 1
             ELSE IF lastReview[1].difficulty = "good"
             THEN lastReview[1].prior * 2
             ELSE lastReview[1].prior * 4)

\* A card of interval 5 reviewed 'easy' is stored with interval 20
C4_Witness ==
    /\ lastReview # <<>>
    /\ lastReview[1].prior = 5
    /\ lastReview[1].difficulty = "easy"
    /\ findIndex(flashcards, lastReview[1].hanzi) # 0
    /\ StoredCard(lastReview[1].hanzi).interval = 20

\* C31: every stored card's interval is a positive number of days, and so is
\* the interval of every card of the due list: reviews with the outcomes
\* hard, good and easy keep the intervals at 1 or above.
C31_IntervalPositive ==
    /\ \A i \in 1..Len(flashcards) : flashcards[i].interval >= 1
    /\ \A i \in 1..Len(dueCards) : dueCards[i].interval >= 1

\* A card of interval 5 was reviewed 'hard' and is stored with interval 1
C31_Witness ==
    /\ lastReview # <<>>
    /\ lastReview[1].prior = 5
    /\ lastReview[1].difficulty = "hard"
    /\ findIndex(flashcards, lastReview[1].hanzi) # 0
    /\ StoredCard(lastReview[1].hanzi).interval = 1

\* The calendar day of an instant
DayOf(t) == t \div TicksPerDay

\* C36: a card that has just been reviewed is not due again on the day of
\* the review.  The review date a review stores lies on a later day; a
\* reloaded due list holds no card whose review date lies after the start of
\* the day; so the list reloaded on the day of the last review does not hold
\* the card reviewed last.
C36_NotDueSameDay ==
    /\ [][currentCardIndex' = currentCardIndex + 1 =>
            \A i \in 1..Len(flashcards') :
               flashcards'[i].hanzi = dueCards[currentCardIndex + 1].hanzi =>
                  DayOf(DateParse(flashcards'[i].reviewDate)) > DayOf(now)]_vars
    /\ [](justLoaded =>
            /\ \A j \in 1..Len(dueCards) :
                  DayOf(DateParse(dueCards[j].reviewDate)) <= DayOf(now)
            /\ (lastReview # <<>> /\ DayOf(lastReview[1].at) = DayOf(now)) =>
                  \A j \in 1..Len(dueCards) :
                     dueCards[j].hanzi # lastReview[1].hanzi)

\* Two stored cards were reviewed and the due list, reloaded on the day of
\* the last review, is empty
C36_Witness ==
    /\ justLoaded
    /\ lastReview # <<>>
    /\ DayOf(lastReview[1].at) = DayOf(now)
    /\ Len(flashcards) = 2
    /\ \A i \in 1..2 : DayOf(DateParse(flashcards[i].reviewDate)) > DayOf(now)
    /\ dueCards = <<>>

\* C24: the review date a review writes is the instant of the review moved
\* on by the new interval in days: the day of the review plus the interval
\* of the outcome table, at the time of day of the review; the card's
\* previous review date plays no part.
C24_ReviewDateFromNow ==
    (lastReview # <<>> /\ findIndex(flashcards, lastReview[1].hanzi) # 0) =>
        LET r    == lastReview[1]
            days == IF r.difficulty = "hard" THEN 1
                    ELSE IF r.difficulty = "good" THEN r.prior * 2
                    ELSE r.prior * 4
        IN StoredCard(r.hanzi).reviewDate =
              [date |-> (r.at \div TicksPerDay) + days,
               time |-> r.at % TicksPerDay]

\* A card of interval 5 stored on the first day was reviewed 'good' at the
\* start of a later day: it is due ten days after the review
C24_Witness ==
    /\ lastReview # <<>>
    /\ findIndex(flashcards, lastReview[1].hanzi) # 0
    /\ lastReview[1].difficulty = "good"
    /\ lastReview[1].prior = 5
    /\ lastReview[1].at \div TicksPerDay >= 1
    /\ lastReview[1].at % TicksPerDay = 0
    /\ StoredCard(lastReview[1].hanzi).reviewDate =
          [date |-> (lastReview[1].at \div TicksPerDay) + 10, time |-> 0]

\* C19: a review persists by replacing the whole collection: the stored
\* collection after it is the one before with exactly the card of the reviewed
\* hanzi replaced by the updated card, every other card, the number and the
\* order of the cards unchanged; when no stored card has that hanzi nothing is
\* written and the review still moves on to the next card.
C19_WholeCollectionReplace ==
    [][currentCardIndex' = currentCardIndex + 1 =>
          LET card == dueCards[currentCardIndex + 1] IN
             /\ Len(flashcards') = Len(flashcards)
             /\ \A i \in 1..Len(flashcards) :
                   IF flashcards[i].hanzi = card.hanzi
                   THEN /\ flashcards'[i].hanzi = card.hanzi
                        /\ flashcards'[i].interval = lastReview'[1].prior
                              * (CASE lastReview'[1].difficulty = "good" -> 2
                                   [] lastReview'[1].difficulty = "easy" -> 4
                                   [] OTHER -> 0)
                              + (IF lastReview'[1].difficulty = "hard" THEN 1 ELSE 0)
                        /\ flashcards'[i].reviewDate =
                              [date |-> toISOString(now).date + flashcards'[i].interval,
                               time |-> toISOString(now).time]
                   ELSE flashcards'[i] = flashcards[i]
             /\ (\A i \in 1..Len(flashcards) : flashcards[i].hanzi # card.hanzi)
                   => flashcards' = flashcards]_vars

\* The second of two stored cards was reviewed: it is replaced in place and
\* the first card is as it was stored on the first day
C19_Witness ==
    /\ lastReview # <<>>
    /\ Len(flashcards) = 2
    /\ flashcards[2].hanzi = lastReview[1].hanzi
    /\ flashcards[2].interval = 2 * lastReview[1].prior
    /\ lastReview[1].difficulty = "good"
    /\ flashcards[2].reviewDate.date > flashcards[1].reviewDate.date
    /\ flashcards[1].reviewDate.date = 0

\* The stored cards whose review date, as a calendar date, is today or earlier
DueByDate ==
    LET onOrBeforeToday(c) == c.reviewDate.date <= toISOString(now).date
    IN SelectSeq(flashcards, onOrBeforeToday)

\* C5: loadDueCards returns exactly the stored cards whose reviewDate is on
\* or before today by date-only comparison, time of day ignored: a card whose
\* reviewDate falls on today at any time of day is returned, one whose
\* reviewDate is tomorrow is not.
C5_DueByDateOnly == justLoaded => dueCards = DueByDate

----------------------------------------------------------------------------
(* Properties of Conversations (checked under SpecConversation) *)

\* C21: a provider failure never leaves a component in a dead end: whenever
\* none of its requests is outstanding, the component's loading flag is
\* cleared, so that its controls can re-attempt the request.  This holds of
\* the exam start and of the writing-pool load, and fails for the
\* conversation load of the level effect, whose rejection is not handled.
C21_FailureClearsLoading ==
    /\ (pendingStart = <<>>) => ~isLoading
    /\ (pendingLoads = <<>> /\ ~levelEffectPending) => ~writingIsLoading
    /\ (convPending = <<>> /\ ~convEffectPending) => ~convIsLoading

\* C37: whenever the exam is Playing its question set is non-empty, so the
\* playing view with its answer, navigation and submit actions is rendered:
\* a start whose provider call succeeds with zero questions does not leave
\* the exam Playing with no user action enabled.
C37_PlayingHasQuestions ==
    /\ examState = "playing" => Len(questions) > 0
    /\ (examState = "playing" /\ ~effectPending) =>
          ENABLED (AnswerClick \/ NavigationClick \/ handleSubmit)

\* C38: an exam started after the previous exam ended by timeout and was
\* reset begins Playing with the full countdown and is not finished by the
\* stale zero: every step into Playing sets timeLeft to the full duration,
\* an exam whose countdown is still full is finished only by the confirmed
\* submission, and a Playing exam has a countdown at zero only while the
\* interval that ticked it there is still armed.
C38_RestartHasFullCountdown ==
    /\ [][(examState # "playing" /\ examState' = "playing")
             => timeLeft' = EXAM_DURATION_SECONDS]_vars
    /\ [][(examState = "playing" /\ examState' = "finished"
             /\ timeLeft = EXAM_DURATION_SECONDS) => handleSubmit]_vars
    /\ []((examState = "playing" /\ timeLeft <= 0) => timerId > 0)

\* The previous exam ran out and was reset, the countdown still shows its
\* zero, and the start that was requested resolves into a Playing exam with
\* the full countdown
C38_Witness ==
    /\ examState = "setup"
    /\ timeLeft = 0
    /\ Len(history) = 1
    /\ pendingStart # <<>>
    /\ ENABLED (\E r \in ExamResponses :
                  /\ Len(r) > 0
                  /\ StartExamResolved(r)
                  /\ examState' = "playing"
                  /\ timeLeft' = EXAM_DURATION_SECONDS)

\* C39: in every reachable state of the exam the countdown lies between zero
\* and the fixed duration: no sequence of ticks, answers, navigation,
\* submissions, resets and restarts drives it below zero or above the
\* duration.
C39_CountdownInRange ==
    /\ timeLeft >= 0
    /\ timeLeft <= EXAM_DURATION_SECONDS

\* The second exam, with an answer changed, ran down to zero and was
\* finished there; no interval is left to tick it lower
C39_Witness ==
    /\ examState = "finished"
    /\ timeLeft = 0
    /\ Len(history) = 2
    /\ examsStarted = 2
    /\ reanswered
    /\ ~effectPending
    /\ timerId = 0
    /\ ~ENABLED Tick

====
